---- MODULE Spec2Model ----
(***************************************************************************)
(* Pursuit simulation of src/main.ts: a Spaceship target, a Pursuer that   *)
(* steers toward it, the Simulation that advances both, and the adapter    *)
(* operations that drive it (animation frame, Pause, Restart, the settings *)
(* panel).                                                                 *)
(*                                                                         *)
(* Numbers.  Settings are whole numbers (the panel's step is 1) and dt is  *)
(* a whole number of time units, so every sum and product is exact.  The   *)
(* only inexact three.js operations are the rescalings v/|v|*len: their    *)
(* components are kept on the integer grid by truncation toward zero.      *)
(* A unit vector (Pursuer.direction) is kept exactly, as num/sqrt(denSq),  *)
(* and Math.acos(theta) <= bound is decided exactly on cos values.         *)
(*                                                                         *)
(* Objects.  THREE.Vector3 objects that can be shared between Settings and *)
(* a Simulation live in `heap`, and fields hold their addresses, so that   *)
(* clone() versus sharing a reference is visible.                          *)
(***************************************************************************)
EXTENDS Integers, Sequences, FiniteSets, TLC

VARIABLES
    heap,       \* address -> Vector3 value
    settings,   \* the Settings object
    sim,        \* the Simulation object the global `sim` refers to
    pauseName,  \* label of the Pause button
    lastOp,     \* the operation that produced this state
    start,      \* what the current Simulation was constructed with
    edits       \* number of settings edits so far

vars == <<heap, settings, sim, pauseName, lastOp, start, edits>>

(***************************************************************************)
(* Bounds of the model.                                                    *)
(***************************************************************************)
MaxDt == 2
MaxTime == 3
MaxEdits == 1
MaxCoord == 2

(***************************************************************************)
(* Integer helpers.                                                        *)
(***************************************************************************)
Sgn(n) == IF n < 0 THEN -1 ELSE IF n > 0 THEN 1 ELSE 0

RECURSIVE NewtonSqrt(_, _)
NewtonSqrt(n, x) ==
    LET y == (x + (n \div x)) \div 2
    IN  IF y >= x THEN x ELSE NewtonSqrt(n, y)

\* floor(Math.sqrt(n)) for n >= 0
isqrt(n) == IF n = 0 THEN 0 ELSE NewtonSqrt(n, n)

\* a/b <= c/d for a, c >= 0 and b, d > 0, by continued fractions (no products)
RECURSIVE FracLe(_, _, _, _)
FracLe(a, b, c, d) ==
    LET qa == a \div b
        qc == c \div d
        ra == a % b
        rc == c % d
    IN  IF qa # qc THEN qa < qc
        ELSE IF ra = 0 THEN TRUE
        ELSE IF rc = 0 THEN FALSE
        ELSE FracLe(d, rc, b, ra)

(***************************************************************************)
(* THREE.Vector3 values and the operations main.ts uses.                   *)
(***************************************************************************)
Vector3(x, y, z) == [x |-> x, y |-> y, z |-> z]

Zero == Vector3(0, 0, 0)

add(a, b) == Vector3(a.x + b.x, a.y + b.y, a.z + b.z)

sub(a, b) == Vector3(a.x - b.x, a.y - b.y, a.z - b.z)

multiplyScalar(a, s) == Vector3(a.x * s, a.y * s, a.z * s)

dot(a, b) == a.x * b.x + a.y * b.y + a.z * b.z

lengthSq(a) == dot(a, a)

\* v.divideScalar(v.length()).multiplyScalar(len) for v # 0, len >= 0:
\* each component c becomes c*len/|v|, truncated toward zero.
setLength(v, len) ==
    LET L == lengthSq(v)
        comp(c) == Sgn(c) * isqrt((c * c * len * len) \div L)
    IN  Vector3(comp(v.x), comp(v.y), comp(v.z))

\* three.js clampLength: divideScalar(length || 1).multiplyScalar(
\*   Math.max(min, Math.min(max, length)))
clampLength(v, min, max) ==
    LET L == lengthSq(v)
    IN  IF L = 0 THEN Zero
        ELSE IF L > max * max THEN setLength(v, max)
        ELSE IF L < min * min THEN setLength(v, min)
        ELSE v

\* offsetToTarget.clone().normalize() followed by multiplyScalar(len):
\* normalize() divides by (length() || 1), so the zero vector stays zero.
normalizeTimes(v, len) == IF lengthSq(v) = 0 THEN Zero ELSE setLength(v, len)

\* A vector of length 0 or 1 kept exactly: num / sqrt(denSq).
\* normalize() divides by (length() || 1).
normalize(v) ==
    [num |-> v, denSq |-> IF lengthSq(v) = 0 THEN 1 ELSE lengthSq(v)]

ZeroDirection == normalize(Zero)

(***************************************************************************)
(* Angles.  theta = dot / denominator is kept as sgn * sqrt(num / den).    *)
(* An angle in radians is kept as the rational multiple piNum/piDen of pi. *)
(***************************************************************************)
\* visionAngle * (Math.PI / 180)
toRadians(deg) == [piNum |-> deg, piDen |-> 180]

\* 4 * cos(a)^2 for the angles a (in degrees) whose squared cosine is rational
FourCosSq(deg) ==
    CASE deg = 30 -> 3
      [] deg = 45 -> 2
      [] deg = 60 -> 1
      [] deg = 90 -> 0

\* if (theta < -1) theta = -1; else if (theta > 1) theta = 1;
clampTheta(th) ==
    IF th.num > th.den /\ th.sgn # 0
    THEN [sgn |-> th.sgn, num |-> 1, den |-> 1]
    ELSE th

\* Math.acos(theta) <= angle / 2, for an angle of at most pi/2.
\* acos decreases, and cos(angle/2) > 0, so this is theta >= cos(angle/2):
\* theta > 0 and 2*theta^2 - 1 >= cos(angle), that is, with a = 2*num - den,
\* a >= 0 and 4 * a^2 >= FourCosSq * den^2.
acosLeHalf(th, angle) ==
    LET deg == (angle.piNum * 180) \div angle.piDen
        c4 == FourCosSq(deg)
        a == 2 * th.num - th.den
    IN  /\ th.sgn > 0
        /\ a >= 0
        /\ IF c4 = 0 THEN TRUE
           ELSE IF a = 0 THEN FALSE
           ELSE FracLe(c4 * th.den, a, 4 * a, th.den)

(***************************************************************************)
(* class Spaceship                                                         *)
(***************************************************************************)
\* this.position.add(this.velocity.clone().multiplyScalar(dt))
SpaceshipUpdate(h, ship, dt) ==
    [h EXCEPT ![ship.position] =
        add(h[ship.position], multiplyScalar(h[ship.velocity], dt))]

(***************************************************************************)
(* class Pursuer                                                           *)
(***************************************************************************)
newPursuer(position, velocity, maxSpeed, maxSteerForce, visionDistance, visionAngle) ==
    [position |-> position,
     velocity |-> velocity,
     acceleration |-> Zero,
     direction |-> ZeroDirection,
     maxSpeed |-> maxSpeed,
     maxSteerForce |-> maxSteerForce,
     visionDistance |-> visionDistance,
     visionAngle |-> toRadians(visionAngle)]

\* Pursuer.update without this.acceleration.setScalar(0)
PursuerUpdateNoReset(h, p, dt) ==
    LET acc == multiplyScalar(p.acceleration, dt)
        h1 == [h EXCEPT ![p.velocity] =
                  clampLength(add(h[p.velocity], acc), 0, p.maxSpeed)]
        h2 == [h1 EXCEPT ![p.position] =
                  add(h1[p.position], multiplyScalar(h1[p.velocity], dt))]
    IN  [heap |-> h2,
         pursuer |-> [p EXCEPT !.acceleration = acc,
                               !.direction = normalize(h2[p.velocity])]]

\* Pursuer.update with the speed clamped before the acceleration is added
PursuerUpdateClampFirst(h, p, dt) ==
    LET acc == multiplyScalar(p.acceleration, dt)
        h1 == [h EXCEPT ![p.velocity] =
                  add(clampLength(h[p.velocity], 0, p.maxSpeed), acc)]
        h2 == [h1 EXCEPT ![p.position] =
                  add(h1[p.position], multiplyScalar(h1[p.velocity], dt))]
    IN  [heap |-> h2,
         pursuer |-> [p EXCEPT !.acceleration = Zero,
                               !.direction = normalize(h2[p.velocity])]]

\* The heap and the pursuer after Pursuer.update(dt)
PursuerUpdate(h, p, dt) ==
    LET acc == multiplyScalar(p.acceleration, dt)
        h1 == [h EXCEPT ![p.velocity] =
                  clampLength(add(h[p.velocity], acc), 0, p.maxSpeed)]
        h2 == [h1 EXCEPT ![p.position] =
                  add(h1[p.position], multiplyScalar(h1[p.velocity], dt))]
    IN  [heap |-> h2,
         pursuer |-> [p EXCEPT !.acceleration = Zero,
                               !.direction = normalize(h2[p.velocity])]]

\* The force pursueTarget adds to the acceleration
steeringForce(h, p, target) ==
    LET offsetToTarget == sub(h[target.position], h[p.position])
        desired == normalizeTimes(offsetToTarget, p.maxSpeed)
    IN  clampLength(sub(desired, h[p.velocity]), 0, p.maxSteerForce)

\* The pursuer after pursueTarget(target)
pursueTarget(h, p, target) ==
    [p EXCEPT !.acceleration = add(p.acceleration, steeringForce(h, p, target))]

\* dx * dx + dy * dy + dz * dz
distanceSq(h, p, target) ==
    lengthSq(sub(h[p.position], h[target.position]))

\* the distance test left out
withinVisionAlways(h, p, target) == TRUE

\* distance <= this.visionDistance
withinVision(h, p, target) ==
    distanceSq(h, p, target) <= p.visionDistance * p.visionDistance

\* denominator == 0, where denominator = sqrt(directionLengthSq * targetLengthSq)
denominatorIsZero(h, p, target) ==
    lengthSq(p.direction.num) * lengthSq(h[target.position]) = 0

\* theta with the dot product taken with the offset from pursuer to target
thetaOfOffset(h, p, target) ==
    LET dotNum == dot(p.direction.num, sub(h[target.position], h[p.position]))
    IN  IF denominatorIsZero(h, p, target)
        THEN [sgn |-> Sgn(dotNum),
              num |-> 4 * 49 * dotNum * dotNum,
              den |-> 484 * p.direction.denSq]
        ELSE [sgn |-> Sgn(dotNum),
              num |-> dotNum * dotNum,
              den |-> lengthSq(p.direction.num) * lengthSq(h[target.position])]

\* theta = dot / denominator before it is clamped.  With direction = num/sqrt(denSq):
\* dot = dotNum / sqrt(denSq) and denominator^2 = |num|^2 * |target|^2 / denSq.
\* A zero denominator is replaced by Math.PI / 2 (pi taken as 22/7).
theta(h, p, target) ==
    LET dotNum == dot(p.direction.num, h[target.position])
    IN  IF denominatorIsZero(h, p, target)
        THEN [sgn |-> Sgn(dotNum),
              num |-> 4 * 49 * dotNum * dotNum,
              den |-> 484 * p.direction.denSq]
        ELSE [sgn |-> Sgn(dotNum),
              num |-> dotNum * dotNum,
              den |-> lengthSq(p.direction.num) * lengthSq(h[target.position])]

didCatchTarget(h, p, target) ==
    /\ withinVision(h, p, target)
    /\ acosLeHalf(clampTheta(theta(h, p, target)), p.visionAngle)

(***************************************************************************)
(* class Simulation                                                        *)
(***************************************************************************)
\* Addresses of the Vector3 objects.  A Simulation replaced by Restart is
\* unreachable, so the new one's objects take the old one's addresses.
SettingsAddrs == {"settings.targetVelocity", "settings.pursuerPosition",
                  "settings.pursuerVelocity"}

SimAddrs == {"target.position", "target.velocity",
             "pursuer.position", "pursuer.velocity"}

Addrs == SettingsAddrs \cup SimAddrs

\* the reference itself taken instead of a clone
cloneShared(h, src, fresh) == [ref |-> src, heap |-> h]

\* v.clone(): a new object at the fresh address, holding v's value
clone(h, src, fresh) ==
    [ref |-> fresh, heap |-> [h EXCEPT ![fresh] = h[src]]]

\* The heap and the object after new Simulation(settings)
newSimulation(h, s) ==
    LET h1 == [h EXCEPT !["target.position"] = Zero]
        tv == clone(h1, s.targetVelocity, "target.velocity")
        pp == clone(tv.heap, s.pursuerPosition, "pursuer.position")
        pv == clone(pp.heap, s.pursuerVelocity, "pursuer.velocity")
    IN  [heap |-> pv.heap,
         sim |-> [target |-> [position |-> "target.position",
                              velocity |-> tv.ref],
                  pursuer |-> newPursuer(pp.ref, pv.ref, s.maxSpeed,
                                         s.maxSteerForce, s.visionDistance,
                                         s.visionAngle),
                  time |-> 0,
                  finished |-> FALSE]]

\* Simulation.update without the early return
SimulationUpdateAlways(h, s, dt) ==
    LET p1 == pursueTarget(h, s.pursuer, s.target)
        h1 == SpaceshipUpdate(h, s.target, dt)
        u == PursuerUpdate(h1, p1, dt)
    IN  [heap |-> u.heap,
         sim |-> [s EXCEPT !.time = s.time + dt,
                           !.pursuer = u.pursuer,
                           !.finished =
                               didCatchTarget(u.heap, u.pursuer, s.target)]]

\* The heap and the object after Simulation.update(dt)
SimulationUpdate(h, s, dt) ==
    IF s.finished THEN [heap |-> h, sim |-> s]
    ELSE
        LET p1 == pursueTarget(h, s.pursuer, s.target)
            h1 == SpaceshipUpdate(h, s.target, dt)
            u == PursuerUpdate(h1, p1, dt)
        IN  [heap |-> u.heap,
             sim |-> [s EXCEPT !.time = s.time + dt,
                               !.pursuer = u.pursuer,
                               !.finished =
                                   didCatchTarget(u.heap, u.pursuer, s.target)]]

(***************************************************************************)
(* class Settings, and the configurations the panel is brought to.         *)
(***************************************************************************)
Config(tv, pp, pv, ms, msf, vd, va) ==
    [targetVelocity |-> tv, pursuerPosition |-> pp, pursuerVelocity |-> pv,
     maxSpeed |-> ms, maxSteerForce |-> msf, visionDistance |-> vd,
     visionAngle |-> va]

\* The field initialisers of class Settings
DefaultSettings ==
    Config(Vector3(10, 0, 0), Vector3(-10, -5, 5), Vector3(-10, 8, 4), 20, 5, 5, 45)

\* Other values of the panel a run starts from (each reachable from the
\* defaults by edits followed by Restart)
StartConfigs ==
    { DefaultSettings,
      \* resting target straight ahead, on an axis and off the axes
      Config(Zero, Vector3(-5, 0, 0), Vector3(1, 0, 0), 2, 1, 6, 90),
      Config(Zero, Vector3(-6, -6, -3), Vector3(2, 2, 1), 3, 1, 10, 90),
      \* target flying away from the pursuer behind it
      Config(Vector3(2, 0, 0), Vector3(-1, 0, 0), Vector3(1, 0, 0), 3, 1, 5, 60),
      \* pursuer flying away from the target behind it
      Config(Vector3(1, 0, 0), Vector3(3, 0, 0), Vector3(3, 0, 0), 3, 1, 5, 45),
      \* initial speed above maxSpeed, target crossing
      Config(Vector3(0, 1, 0), Vector3(-4, 3, 0), Vector3(3, -4, 1), 2, 3, 2, 30) }

\* The Settings object and its three Vector3 objects for a configuration
SettingsObject(c) ==
    [targetVelocity |-> "settings.targetVelocity",
     pursuerPosition |-> "settings.pursuerPosition",
     pursuerVelocity |-> "settings.pursuerVelocity",
     maxSpeed |-> c.maxSpeed,
     maxSteerForce |-> c.maxSteerForce,
     visionDistance |-> c.visionDistance,
     visionAngle |-> c.visionAngle]

SettingsHeap(c) ==
    [a \in Addrs |->
        CASE a = "settings.targetVelocity" -> c.targetVelocity
          [] a = "settings.pursuerPosition" -> c.pursuerPosition
          [] a = "settings.pursuerVelocity" -> c.pursuerVelocity
          [] OTHER -> Zero]

\* Values the panel's sliders are moved to
VectorFields == {"targetVelocity", "pursuerPosition", "pursuerVelocity"}

Components == {"x", "y", "z"}

ComponentValues == {-1, 2}

ScalarValues ==
    [maxSpeed |-> {1, 4}, maxSteerForce |-> {2}, visionDistance |-> {3},
     visionAngle |-> {60, 90}]

ScalarFields == DOMAIN ScalarValues

Dts == 0..MaxDt

\* What a Simulation was constructed with (history, read by no operation)
StartOf(h, s) ==
    [targetVelocity |-> h[s.target.velocity],
     pursuerPosition |-> h[s.pursuer.position],
     pursuerVelocity |-> h[s.pursuer.velocity],
     visionDistance |-> s.pursuer.visionDistance]

(***************************************************************************)
(* The adapter: init(), animate(), the Pause and Restart buttons, the      *)
(* sliders of the panel.                                                   *)
(***************************************************************************)
Init ==
    \E c \in StartConfigs :
        LET n == newSimulation(SettingsHeap(c), SettingsObject(c))
        IN  /\ settings = SettingsObject(c)
            /\ heap = n.heap
            /\ sim = n.sim
            /\ start = StartOf(n.heap, n.sim)
            /\ pauseName = "Pause"
            /\ lastOp = "init"
            /\ edits = 0

\* animate(): sim.update(clock.getDelta()); the rest of the frame copies the
\* simulation into the scene and changes nothing of it
Animate(dt) ==
    /\ sim.finished \/ sim.time + dt <= MaxTime
    /\ LET u == SimulationUpdate(heap, sim, dt)
       IN  /\ heap' = u.heap
           /\ sim' = u.sim
    /\ lastOp' = IF sim.finished THEN "update (finished)" ELSE "update"
    /\ UNCHANGED <<settings, pauseName, start, edits>>

\* obj.Pause
Pause ==
    /\ sim' = [sim EXCEPT !.finished = ~sim.finished]
    /\ pauseName' = IF sim'.finished THEN "Unpause" ELSE "Pause"
    /\ lastOp' = "Pause"
    /\ UNCHANGED <<heap, settings, start, edits>>

\* obj.Restart (the cone geometry it rebuilds is presentation only)
Restart ==
    /\ LET n == newSimulation(heap, settings)
       IN  /\ heap' = n.heap
           /\ sim' = n.sim
           /\ start' = StartOf(n.heap, n.sim)
    /\ lastOp' = "Restart"
    /\ UNCHANGED <<settings, pauseName, edits>>

\* A slider of a Vector3 folder: settings.<field>.<component> = value
EditVector(field, component, value) ==
    /\ edits < MaxEdits
    /\ heap' = [heap EXCEPT ![settings[field]][component] = value]
    /\ edits' = edits + 1
    /\ lastOp' = "edit"
    /\ UNCHANGED <<settings, sim, pauseName, start>>

\* A slider of the Settings object itself: settings.<field> = value
EditScalar(field, value) ==
    /\ edits < MaxEdits
    /\ settings' = [settings EXCEPT ![field] = value]
    /\ edits' = edits + 1
    /\ lastOp' = "edit"
    /\ UNCHANGED <<heap, sim, pauseName, start>>

Next ==
    \/ \E dt \in Dts : Animate(dt)
    \/ Pause
    \/ Restart
    \/ \E f \in VectorFields, c \in Components, v \in ComponentValues :
          EditVector(f, c, v)
    \/ \E f \in ScalarFields : \E v \in ScalarValues[f] : EditScalar(f, v)

Spec == Init /\ [][Next]_vars

(***************************************************************************)
(* Method-level specification: the methods of Pursuer and Simulation       *)
(* applied once to an object drawn from bounded sets.                      *)
(***************************************************************************)
Coords == -MaxCoord..MaxCoord

PursuerPoints == {Vector3(x, y, 0) : x \in Coords, y \in {0, 2}}

TargetPoints == {Vector3(x, y, 0) : x \in Coords, y \in Coords}

Velocities == {Vector3(x, y, z) : x \in -1..1, y \in -1..1, z \in {0, 2}}

Accelerations == {Zero, Vector3(3, 0, 0), Vector3(-1, 2, 2), Vector3(0, -1, 0)}

MethodDts == -1..MaxDt

\* A Simulation in the middle of a run: the pursuer at pp with velocity pv
\* (and the direction the last Pursuer.update left), the target at tp.
MidRun(pp, pv, acc, tp, tv, ms, msf, vd, va) ==
    LET n == newSimulation(SettingsHeap(Config(tv, pp, pv, ms, msf, vd, va)),
                           SettingsObject(Config(tv, pp, pv, ms, msf, vd, va)))
    IN  [heap |-> [n.heap EXCEPT !["target.position"] = tp],
         sim |-> [n.sim EXCEPT !.pursuer.acceleration = acc,
                               !.pursuer.direction =
                                   IF lengthSq(pv) <= ms * ms
                                   THEN normalize(pv) ELSE ZeroDirection]]

MethodInputs ==
    \* inputs of didCatchTarget
    { MidRun(pp, pv, Zero, tp, Zero, 3, 1, vd, va) :
        pp \in PursuerPoints, pv \in Velocities, tp \in TargetPoints,
        vd \in {1, 3}, va \in {45, 60, 90} }
    \cup
    \* inputs of Pursuer.update
    { MidRun(Vector3(1, 0, 0), pv, acc, Zero, Zero, ms, 1, 3, 90) :
        pv \in Velocities, acc \in Accelerations, ms \in {1, 2} }
    \cup
    \* inputs of Simulation.update
    { MidRun(pp, pv, Zero, tp, tv, ms, msf, 3, 90) :
        pp \in PursuerPoints, pv \in {Vector3(1, 0, 0), Vector3(-1, 1, 2)},
        tp \in {Zero, Vector3(1, 2, 0)},
        tv \in {Zero, Vector3(1, 0, 0), Vector3(-2, 1, 0)},
        ms \in {1, 3}, msf \in {1, 2} }

MethodInit ==
    \E m \in MethodInputs :
        /\ heap = m.heap
        /\ sim = m.sim
        /\ settings = SettingsObject(DefaultSettings)
        /\ start = StartOf(m.heap, m.sim)
        /\ pauseName = "Pause"
        /\ lastOp = "init"
        /\ edits = 0

CallDidCatchTarget ==
    /\ lastOp = "init"
    /\ sim' = [sim EXCEPT !.finished =
                  didCatchTarget(heap, sim.pursuer, sim.target)]
    /\ lastOp' = "didCatchTarget"
    /\ UNCHANGED <<heap, settings, pauseName, start, edits>>

CallPursuerUpdate(dt) ==
    /\ lastOp = "init"
    /\ LET u == PursuerUpdate(heap, sim.pursuer, dt)
       IN  /\ heap' = u.heap
           /\ sim' = [sim EXCEPT !.pursuer = u.pursuer]
    /\ lastOp' = "Pursuer.update"
    /\ UNCHANGED <<settings, pauseName, start, edits>>

\* Simulation.update is only ever called on an object whose acceleration
\* the previous call has reset
CallSimulationUpdate(dt) ==
    /\ lastOp = "init"
    /\ sim.pursuer.acceleration = Zero
    /\ LET u == SimulationUpdate(heap, sim, dt)
       IN  /\ heap' = u.heap
           /\ sim' = u.sim
    /\ lastOp' = "update"
    /\ UNCHANGED <<settings, pauseName, start, edits>>

MethodNext ==
    \/ CallDidCatchTarget
    \/ \E dt \in MethodDts : CallPursuerUpdate(dt)
    \/ \E dt \in MethodDts : CallSimulationUpdate(dt)

MethodSpec == MethodInit /\ [][MethodNext]_vars

(***************************************************************************)
(* What the claims read.                                                   *)
(***************************************************************************)
\* Every field of a Simulation, with the Vector3 fields by value
SimValue(h, s) ==
    [target |-> [position |-> h[s.target.position],
                 velocity |-> h[s.target.velocity]],
     pursuer |-> [s.pursuer EXCEPT !.position = h[s.pursuer.position],
                                   !.velocity = h[s.pursuer.velocity]],
     time |-> s.time,
     finished |-> s.finished]

\* Every field of the Settings, with the Vector3 fields by value
SettingsValue(h, st) ==
    [st EXCEPT !.targetVelocity = h[st.targetVelocity],
               !.pursuerPosition = h[st.pursuerPosition],
               !.pursuerVelocity = h[st.pursuerVelocity]]

\* The fields a Simulation constructed from the settings value c must have
FreshValue(c) ==
    [target |-> [position |-> Zero, velocity |-> c.targetVelocity],
     pursuer |-> [position |-> c.pursuerPosition,
                  velocity |-> c.pursuerVelocity,
                  acceleration |-> Zero,
                  direction |-> [num |-> Zero, denSq |-> 1],
                  maxSpeed |-> c.maxSpeed,
                  maxSteerForce |-> c.maxSteerForce,
                  visionDistance |-> c.visionDistance,
                  visionAngle |-> [piNum |-> c.visionAngle, piDen |-> 180]],
     time |-> 0,
     finished |-> FALSE]

cross(a, b) ==
    Vector3(a.y * b.z - a.z * b.y, a.z * b.x - a.x * b.z, a.x * b.y - a.y * b.x)

\* b is a positive multiple of a
PositiveMultiple(a, b) == a # Zero /\ cross(a, b) = Zero /\ dot(a, b) > 0

pursuerSpeedSq == lengthSq(heap[sim.pursuer.velocity])

offsetNow == sub(heap[sim.target.position], heap[sim.pursuer.position])

inRangeNow == lengthSq(offsetNow) <= sim.pursuer.visionDistance * sim.pursuer.visionDistance

\* The angle between the direction and the offset to the target is at most
\* visionAngle / 2 (both vectors nonzero)
offsetInsideCone ==
    LET d == sim.pursuer.direction.num
    IN  acosLeHalf([sgn |-> Sgn(dot(d, offsetNow)),
                    num |-> dot(d, offsetNow) * dot(d, offsetNow),
                    den |-> lengthSq(d) * lengthSq(offsetNow)],
                   sim.pursuer.visionAngle)

\* The current Simulation was constructed with a resting target, the
\* pursuer's velocity pointing at it, and the target within visionDistance
HeadOnStart ==
    /\ start.targetVelocity = Zero
    /\ PositiveMultiple(start.pursuerVelocity, sub(Zero, start.pursuerPosition))
    /\ lengthSq(start.pursuerPosition) < start.visionDistance * start.visionDistance

updated == lastOp \in {"update", "update (finished)"}

(***************************************************************************)
(* The claims.                                                             *)
(***************************************************************************)
\* C1: Simulation.update on a finished Simulation changes no field of it
\* (time, both positions, both velocities, acceleration, direction, finished),
\* for every dt and however often it is called.
C1_FinishedUpdateIsNoOp ==
    [][(sim.finished /\ updated') => SimValue(heap, sim)' = SimValue(heap, sim)]_vars

\* C1 witness: update has been called on a Simulation that finished by
\* catching the target (the Pause button was not what set finished).
C1_Witness ==
    /\ lastOp = "update (finished)"
    /\ sim.finished
    /\ pauseName = "Pause"
    /\ sim.time > 0

\* C2 as claimed: within one Simulation instance (no Restart), finished
\* never goes from true back to false.
C2_FinishedIsTerminal ==
    [][(sim.finished /\ lastOp' # "Restart") => sim'.finished]_vars

\* C2 as amended: update and the settings edits never take finished from
\* true to false; the Pause button toggles it (so it un-finishes a finished
\* instance), and Restart installs a new, running instance.
C2_OnlyPauseUnfinishes ==
    [][/\ (sim.finished /\ lastOp' \notin {"Pause", "Restart"}) => sim'.finished
       /\ lastOp' = "Pause" => sim'.finished = ~sim.finished
       /\ lastOp' = "Restart" => ~sim'.finished]_vars

\* C2 witness: the Pause button has taken finished from true back to
\* false on an instance that had advanced.
C2_Witness ==
    /\ lastOp = "Pause"
    /\ ~sim.finished
    /\ sim.time > 0

\* C3 as claimed: a Simulation started with a resting target straight ahead
\* of the pursuer and within visionDistance is finished once the updates
\* have advanced it to the model's time horizon.
C3_HeadOnPursuitFinishes ==
    (HeadOnStart /\ sim.time >= MaxTime) => sim.finished

\* C4 as claimed: after a running update, a target straight ahead of the
\* pursuer (offset a positive multiple of direction) and within
\* visionDistance has been caught.
C4_StraightAheadIsCaught ==
    (/\ lastOp = "update"
     /\ PositiveMultiple(sim.pursuer.direction.num, offsetNow)
     /\ inRangeNow) => sim.finished

\* C5 as claimed: after a running update, a target within visionDistance
\* whose offset from the pursuer makes an angle of more than visionAngle/2
\* with the direction has not been caught.
C5_OutsideConeIsNotCaught ==
    (/\ lastOp = "update"
     /\ inRangeNow
     /\ offsetNow # Zero
     /\ sim.pursuer.direction.num # Zero
     /\ ~offsetInsideCone) => ~sim.finished

\* C6: after Pursuer.update(dt), called directly with any acceleration and
\* any prior velocity or as part of a running Simulation.update, the
\* pursuer's speed is at most maxSpeed.
C6_SpeedAtMostMaxSpeed ==
    lastOp \in {"Pursuer.update", "update"} =>
        pursuerSpeedSq <= sim.pursuer.maxSpeed * sim.pursuer.maxSpeed

\* C6 witness: Pursuer.update has run on a velocity that was above maxSpeed
\* and on a nonzero acceleration, and left the pursuer moving.
C6_Witness ==
    /\ lastOp = "Pursuer.update"
    /\ lengthSq(start.pursuerVelocity) > sim.pursuer.maxSpeed * sim.pursuer.maxSpeed
    /\ pursuerSpeedSq > 0
    /\ heap[sim.pursuer.velocity] # start.pursuerVelocity

\* C7: whenever Simulation.update can run, the acceleration is the zero
\* vector, and the acceleration pursueTarget leaves for Pursuer.update to
\* integrate has length at most maxSteerForce.
C7_AccelerationAtMostMaxSteerForce ==
    /\ sim.pursuer.acceleration = Zero
    /\ lengthSq(pursueTarget(heap, sim.pursuer, sim.target).acceleration)
          <= sim.pursuer.maxSteerForce * sim.pursuer.maxSteerForce

\* C7 witness: after a running update, the next steering force is one that
\* the clamp shortens (desired - velocity is longer than maxSteerForce).
C7_Witness ==
    /\ lastOp = "update"
    /\ ~sim.finished
    /\ LET p == sim.pursuer
           desired == normalizeTimes(offsetNow, p.maxSpeed)
       IN  /\ lengthSq(sub(desired, heap[p.velocity])) > p.maxSteerForce * p.maxSteerForce
           /\ steeringForce(heap, p, sim.target) # Zero

\* C8: a settings edit changes no field of the Simulation, no update changes
\* a field of the Settings, and Restart leaves the Settings alone and
\* installs a Simulation whose fields are exactly those the current
\* settings give.
C8_SettingsAndSimulationAreSeparate ==
    [][/\ lastOp' = "edit" => SimValue(heap, sim)' = SimValue(heap, sim)
       /\ updated' => SettingsValue(heap, settings)' = SettingsValue(heap, settings)
       /\ lastOp' = "Restart" =>
             /\ SettingsValue(heap, settings)' = SettingsValue(heap, settings)
             /\ SimValue(heap, sim)' = FreshValue(SettingsValue(heap, settings))]_vars

\* C8 witness: a Simulation has advanced after a slider moved one of the
\* Vector3 settings away from the value the Simulation was built from.
C8_Witness ==
    /\ lastOp = "update"
    /\ edits > 0
    /\ sim.time > 0
    /\ start.pursuerPosition # heap[settings.pursuerPosition]

\* C9: didCatchTarget is false when the pursuer and the target are more
\* than visionDistance apart, and a running Simulation.update that sets
\* finished leaves them at most visionDistance apart.
C9_NoCatchBeyondVisionDistance ==
    /\ (lastOp = "didCatchTarget" /\ ~inRangeNow) => ~sim.finished
    /\ (lastOp = "update" /\ sim.finished) => inRangeNow

\* C9 witness: didCatchTarget has been called with the target beyond
\* visionDistance but at an angle the cone test accepts.
C9_Witness ==
    /\ lastOp = "didCatchTarget"
    /\ ~inRangeNow
    /\ acosLeHalf(clampTheta(theta(heap, sim.pursuer, sim.target)),
                  sim.pursuer.visionAngle)

\* C10 as claimed: with the target within visionDistance and a zero
\* denominator, the computed angle is less than a right angle (theta > 0).
C10_FallbackAngleIsAcute ==
    (/\ lastOp = "didCatchTarget"
     /\ inRangeNow
     /\ denominatorIsZero(heap, sim.pursuer, sim.target)) =>
        LET th == clampTheta(theta(heap, sim.pursuer, sim.target))
        IN  th.sgn > 0 /\ th.num > 0

\* C10 as amended: with the target within visionDistance and a zero
\* denominator, theta is 0, so the computed angle is exactly a right angle
\* and didCatchTarget is false.
C10_FallbackAngleIsRight ==
    (/\ lastOp = "didCatchTarget"
     /\ inRangeNow
     /\ denominatorIsZero(heap, sim.pursuer, sim.target)) =>
        /\ clampTheta(theta(heap, sim.pursuer, sim.target)).num = 0
        /\ ~sim.finished

\* C10 witness: didCatchTarget has been called with the target at the world
\* origin, within visionDistance and straight ahead of a moving pursuer.
C10_Witness ==
    /\ lastOp = "didCatchTarget"
    /\ inRangeNow
    /\ heap[sim.target.position] = Zero
    /\ PositiveMultiple(sim.pursuer.direction.num, offsetNow)

====
